---- MODULE Spec2Model ----
(***************************************************************************)
(* Sandbox launcher (runner/launcher.c, policies/seccomp_rules.h,          *)
(* telemetry.c): a supervisor process that clones a child into new         *)
(* namespaces, polls it with waitpid(WNOHANG), classifies its wait status  *)
(* and writes one telemetry log; and the child, which locks the mount      *)
(* tree, applies rlimits, loads a seccomp filter and execs the target.     *)
(* The kernel is modelled by what it does with the calls the code makes:   *)
(* wait-status encoding, auto-reaping when SIGCHLD is ignored, seccomp's   *)
(* default action on a syscall outside the allow-list.                     *)
(***************************************************************************)
EXTENDS Integers, Sequences, FiniteSets, TLC

(***************************************************************************)
(* Bounds of the model.                                                    *)
(***************************************************************************)
\* readings of VmPeak are drawn from 0..MaxMem (0 is a failed read)
MaxMem == 1
\* setrlimit calls that fail in one run of child_fn: resources whose
\* inherited hard ceiling is under the value asked for
MaxRlimitFailures == 1
\* syscalls the target issues before it has to terminate
MaxSyscalls == 2
\* exit codes the target passes to exit_group are drawn from 0..MaxExitCode
MaxExitCode == 2
\* utime+stime readings are 0, 9, ..., 9 * MaxTicks clock ticks
MaxTicks == 1
\* the clock is read up to MaxRuntime sample periods (100 ms) after the start
MaxRuntime == 1
\* page-fault readings are drawn from 0..MaxFlt
MaxFlt == 1
\* add_sample calls made after the buffer is full
MaxOverflow == 2
\* tokens on the command line after the program name
MaxArgs == 3
MaxSeconds == 2

(***************************************************************************)
(* Kernel constants the code names.                                        *)
(***************************************************************************)
SIGKILL == 9
SIGSYS == 31
\* the pid clone() returns in the parent on success
ChildPid == 2
\* telemetry.h: capacity of the sample buffer
MAX_SAMPLES == 1000
\* sysconf(_SC_CLK_TCK) on Linux
CLK_TCK == 100

\* signals whose default action dumps core (status bit 0x80 may be set)
CoreSignals == {3, 4, 5, 6, 7, 8, 11, 24, 25, 31}

(***************************************************************************)
(* Command line.  A token is a record: opt says the token starts with the  *)
(* ten characters "--profile=" (what strncmp(argv[1], "--profile=", 10)    *)
(* tests), text is the rest of the token (pinfo) or the whole token.       *)
(* argv[1] here is C's argv[0]; C index i is index i+1 here.               *)
(***************************************************************************)
Opt(s) == [opt |-> TRUE, text |-> s]
Word(s) == [opt |-> FALSE, text |-> s]

ArgVectors ==
    { <<Word("launcher")>>,
      <<Word("launcher"), Opt("STRICT")>>,
      <<Word("launcher"), Word("prog")>>,
      <<Word("launcher"), Opt("RESOURCE-AWARE"), Word("prog"), Word("arg")>>,
      <<Word("launcher"), Opt("LEARNING"), Word("prog")>>,
      <<Word("launcher"), Opt("BOGUS"), Word("prog")>> }

VARIABLES
    argv,            \* the supervisor's argument vector
    sigchld_ignored, \* SIGCHLD disposition inherited by the supervisor is SIG_IGN
    pc,              \* supervisor's position in main
    exit_code,       \* supervisor's exit status, -1 while it runs
    config,          \* struct container_config handed to the child
    profile_str,     \* profile name for the log
    stack,           \* child stack: "none", "allocated", "freed"
    child_pid,       \* what clone returned (0 before the call)
    result,          \* what the last waitpid returned (0 before the first)
    status,          \* int status; stored is false until waitpid writes it
    flags,           \* the flags clone was given: the child's namespaces ({} before)
    start_time,      \* long start_time of main (0 before it is set)
    current_mem,     \* long current_mem of the loop body (0 outside it)
    log_data,        \* telemetry_log_t
    total_ticks,     \* unsigned long long total_ticks of main
    log_calls,       \* calls of log_telemetry
    log_files,       \* log files written, each with the record it holds
    stderr,          \* what the supervisor reported with perror / print_usage
    cpc,             \* child's position in child_fn / the target
    trace,           \* setup steps the child has performed, in order
    mounts,          \* outcome of the two mount calls
    rlimits,         \* resource -> [cur, max] in force for the child
    filter,          \* seccomp filter of the child: [def, allow]
    death,           \* how the child terminated (NoDeath while it has not)
    zombie,          \* the terminated child still awaits its reap
    tsteps,          \* syscalls the target has attempted
    effected,        \* syscalls of the target that took effect
    denied,          \* the target attempted a syscall outside the allow-list
    image,           \* what execv was given: the path and the argument vector
    logs_dir,        \* the directory logs/ as the run found it ("unseen" before)
    feed,            \* recorder driven alone: what its caller passes, call by call
    add_calls,       \* recorder driven alone: calls of add_sample made
    clock,           \* supervisors side by side: what time(NULL) returns
    run_files,       \* supervisors side by side: file name -> what logs/ holds
    peers            \* supervisors side by side: each one's position and log

vars == <<argv, sigchld_ignored, pc, exit_code, config, profile_str, stack,
          child_pid, result, status, start_time, current_mem,
          log_data, total_ticks, log_calls,
          log_files, stderr, cpc, trace, mounts, rlimits, filter, death,
          zombie, tsteps, effected, denied, feed, add_calls, logs_dir, image, flags,
          clock, run_files, peers>>

supVars == <<pc, exit_code, config, profile_str, stack, child_pid, result,
             status, start_time, current_mem, log_data, total_ticks, log_calls, log_files,
             stderr, flags>>

childVars == <<cpc, trace, mounts, rlimits, filter, death, zombie, tsteps,
               effected, denied, image>>

\* what no step of a launcher run changes
sharedVars == <<clock, run_files, peers>>

envVars == <<argv, sigchld_ignored, logs_dir, feed, add_calls, sharedVars>>

(***************************************************************************)
(* Wait status.  The kernel encodes a termination into the int that        *)
(* waitpid stores; the W* macros of <sys/wait.h> decode it.                *)
(***************************************************************************)
NoDeath == [kind |-> "none"]
Exited(c) == [kind |-> "exit", code |-> c]
Signaled(n, core) == [kind |-> "signal", sig |-> n, core |-> core]

\* exit code in bits 8..15, terminating signal in bits 0..6, core flag 0x80
EncodeStatus(d) ==
    IF d.kind = "exit" THEN (d.code % 256) * 256
    ELSE d.sig + (IF d.core THEN 128 ELSE 0)

\* status & 0x7f
WTERMSIG(s) == s % 128
\* (status & 0xff00) >> 8
WEXITSTATUS(s) == (s \div 256) % 256
\* WTERMSIG(status) == 0
WIFEXITED(s) == WTERMSIG(s) = 0
\* ((signed char) ((status & 0x7f) + 1) >> 1) > 0
WIFSIGNALED(s) ==
    LET v == WTERMSIG(s) + 1
        sc == IF v >= 128 THEN v - 256 ELSE v
    IN  (sc \div 2) > 0

\* values an uninitialised int status can hold: any encodable termination,
\* and values that are neither an exit nor a signal death
StoppedStatus == 4991
ContinuedStatus == 65535
GarbageStatuses ==
    {EncodeStatus(Exited(c)) : c \in 0..MaxExitCode}
    \cup {EncodeStatus(Signaled(n, FALSE)) : n \in {SIGKILL, SIGSYS, 15}}
    \cup {EncodeStatus(Signaled(SIGSYS, TRUE)), StoppedStatus, ContinuedStatus, -1}

(***************************************************************************)
(* main, lines 258-277: the three labels of the summary from the status.   *)
(* A status that is neither an exit nor a signal death leaves the labels   *)
(* as the zero-initialised log_data has them (empty).                      *)
(***************************************************************************)
ExitedReason(c) == "EXITED(" \o ToString(c) \o ")"
SigLabel(n) == "SIG" \o ToString(n)

ClassifyNoKillBranch(labels, s) ==
    IF WIFEXITED(s)
    THEN [labels EXCEPT !.exit_reason = ExitedReason(WEXITSTATUS(s))]
    ELSE IF WIFSIGNALED(s)
    THEN LET sig == WTERMSIG(s)
         IN  IF sig = SIGSYS
             THEN [labels EXCEPT !.termination_signal = SigLabel(sig),
                                 !.exit_reason = "SECURITY_VIOLATION",
                                 !.blocked_syscall = "Unknown(SIGSYS)"]
             ELSE [labels EXCEPT !.termination_signal = SigLabel(sig),
                                 !.exit_reason = "SIGNALED"]
    ELSE labels

Classify(labels, s) ==
    IF WIFEXITED(s)
    THEN [labels EXCEPT !.exit_reason = ExitedReason(WEXITSTATUS(s))]
    ELSE IF WIFSIGNALED(s)
    THEN LET sig == WTERMSIG(s)
         IN  IF sig = SIGSYS
             THEN [labels EXCEPT !.termination_signal = SigLabel(sig),
                                 !.exit_reason = "SECURITY_VIOLATION",
                                 !.blocked_syscall = "Unknown(SIGSYS)"]
             ELSE IF sig = SIGKILL
             THEN [labels EXCEPT !.termination_signal = SigLabel(sig),
                                 !.exit_reason = "KILLED_BY_OS"]
             ELSE [labels EXCEPT !.termination_signal = SigLabel(sig),
                                 !.exit_reason = "SIGNALED"]
    ELSE labels

(***************************************************************************)
(* main, lines 123-153: argument handling.                                 *)
(***************************************************************************)
argc(av) == Len(av)

\* a parse that never steps over the profile token
ParseArgsKeepingToken(av) ==
    IF argc(av) < 2
    THEN [usage |-> TRUE, profile |-> "PROFILE_STRICT", profile_str |-> "STRICT",
          bin_index |-> 1]
    ELSE LET a1 == av[2]
             p == IF a1.opt /\ a1.text = "RESOURCE-AWARE"
                  THEN "PROFILE_RESOURCE_AWARE"
                  ELSE IF a1.opt /\ a1.text = "LEARNING" THEN "PROFILE_LEARNING"
                  ELSE "PROFILE_STRICT"
             ps == IF a1.opt /\ a1.text = "RESOURCE-AWARE" THEN "RESOURCE-AWARE"
                   ELSE IF a1.opt /\ a1.text = "LEARNING" THEN "LEARNING"
                   ELSE "STRICT"
         IN  [usage |-> 1 >= argc(av), profile |-> p, profile_str |-> ps,
              bin_index |-> 1]

ParseArgs(av) ==
    IF argc(av) < 2
    THEN [usage |-> TRUE, profile |-> "PROFILE_STRICT", profile_str |-> "STRICT",
          bin_index |-> 1]
    ELSE LET a1 == av[2]
             p == IF a1.opt /\ a1.text = "RESOURCE-AWARE" THEN "PROFILE_RESOURCE_AWARE"
                  ELSE IF a1.opt /\ a1.text = "LEARNING" THEN "PROFILE_LEARNING"
                  ELSE "PROFILE_STRICT"
             ps == IF a1.opt /\ a1.text = "RESOURCE-AWARE" THEN "RESOURCE-AWARE"
                   ELSE IF a1.opt /\ a1.text = "LEARNING" THEN "LEARNING"
                   ELSE "STRICT"
             bi == IF a1.opt THEN 2 ELSE 1
         IN  [usage |-> bi >= argc(av), profile |-> p, profile_str |-> ps,
              bin_index |-> bi]

\* no execv yet
NoImage == [path |-> "", args |-> <<>>]

NoConfig == [binary_path |-> "", args |-> <<>>, profile |-> "PROFILE_STRICT"]
\* lines 165-168: binary_path = argv[bin_index], args = &argv[bin_index]
MakeConfig(av, parsed) ==
    [binary_path |-> av[parsed.bin_index + 1].text,
     args |-> SubSeq(av, parsed.bin_index + 1, Len(av)),
     profile |-> parsed.profile]

\* the sample buffer: a NULL pointer, or MAX_SAMPLES entries of which mem
\* holds those written so far (the rest is never read)
NullSamples == [null |-> TRUE, mem |-> <<>>]

\* telemetry_log_t log_data = {0}
ZeroLog ==
    [program_name |-> "", profile_name |-> "", runtime_ms |-> 0,
     cpu_usage_percent |-> 0, memory_peak_kb |-> 0,
     minflt |-> 0, majflt |-> 0, termination_signal |-> "",
     blocked_syscall |-> "", exit_reason |-> "",
     samples |-> NullSamples, sample_count |-> 0]

(***************************************************************************)
(* IEEE 754 binary64 arithmetic, as lines 250-253 of main use it: exact    *)
(* results rounded to 53 significant bits, ties to even.  A double is      *)
(* m * 2^e with m a natural below 2^53; naturals that large are kept as    *)
(* sequences of limbs, least significant first.  The values met here are   *)
(* far from the subnormal and the overflow range.                          *)
(***************************************************************************)
LimbBase == 2^15

RECURSIVE BN(_)
BN(n) == IF n = 0 THEN <<>> ELSE <<n % LimbBase>> \o BN(n \div LimbBase)

RECURSIVE BNNorm(_)
BNNorm(a) ==
    IF a = <<>> THEN <<>>
    ELSE IF a[Len(a)] = 0 THEN BNNorm(SubSeq(a, 1, Len(a) - 1))
    ELSE a

RECURSIVE BNCmpFrom(_, _, _)
BNCmpFrom(a, b, i) ==
    IF i = 0 THEN 0
    ELSE IF a[i] < b[i] THEN -1
    ELSE IF a[i] > b[i] THEN 1
    ELSE BNCmpFrom(a, b, i - 1)

\* -1, 0, 1 as a is below, equal to, above b (both without leading zeros)
BNCmp(a, b) ==
    IF Len(a) < Len(b) THEN -1
    ELSE IF Len(a) > Len(b) THEN 1
    ELSE BNCmpFrom(a, b, Len(a))

BNLimb(a, i) == IF i <= Len(a) THEN a[i] ELSE 0

RECURSIVE BNAddFrom(_, _, _, _)
BNAddFrom(a, b, i, carry) ==
    IF i > Len(a) /\ i > Len(b)
    THEN (IF carry = 0 THEN <<>> ELSE <<carry>>)
    ELSE LET t == BNLimb(a, i) + BNLimb(b, i) + carry
         IN  <<t % LimbBase>> \o BNAddFrom(a, b, i + 1, t \div LimbBase)

BNAdd(a, b) == BNAddFrom(a, b, 1, 0)

RECURSIVE BNSubFrom(_, _, _, _)
BNSubFrom(a, b, i, borrow) ==
    IF i > Len(a) THEN <<>>
    ELSE LET t == a[i] - BNLimb(b, i) - borrow
         IN  IF t < 0
             THEN <<t + LimbBase>> \o BNSubFrom(a, b, i + 1, 1)
             ELSE <<t>> \o BNSubFrom(a, b, i + 1, 0)

\* a - b for a >= b
BNSub(a, b) == BNNorm(BNSubFrom(a, b, 1, 0))

RECURSIVE BNMulSmallFrom(_, _, _, _)
BNMulSmallFrom(a, k, i, carry) ==
    IF i > Len(a) THEN BN(carry)
    ELSE LET t == a[i] * k + carry
         IN  <<t % LimbBase>> \o BNMulSmallFrom(a, k, i + 1, t \div LimbBase)

\* a * k for a limb k
BNMulSmall(a, k) == BNNorm(BNMulSmallFrom(a, k, 1, 0))

RECURSIVE BNMulFrom(_, _, _)
BNMulFrom(a, b, i) ==
    IF i > Len(b) THEN <<>>
    ELSE BNAdd(BNMulSmall(a, b[i]),
               LET rest == BNMulFrom(a, b, i + 1)
               IN  IF rest = <<>> THEN <<>> ELSE <<0>> \o rest)

BNMul(a, b) == BNNorm(BNMulFrom(a, b, 1))

BNDouble(a) == BNAdd(a, a)

RECURSIVE BNHalfFrom(_, _, _)
BNHalfFrom(a, i, carry) ==
    IF i = 0 THEN <<>>
    ELSE LET t == carry * LimbBase + a[i]
         IN  BNHalfFrom(a, i - 1, t % 2) \o <<t \div 2>>

\* floor(a / 2)
BNHalf(a) == BNNorm(BNHalfFrom(a, Len(a), 0))

BNOdd(a) == a # <<>> /\ a[1] % 2 = 1

RECURSIVE BNToInt(_)
BNToInt(a) == IF a = <<>> THEN 0 ELSE a[1] + LimbBase * BNToInt(Tail(a))

\* a * 2^15
BNShiftLimb(a) == IF a = <<>> THEN <<>> ELSE <<0>> \o a

\* scale n/d * 2^e until d <= n < 2d, a limb at a time while that is short
\* of the mark, then a bit at a time
RECURSIVE Normalise(_, _, _)
Normalise(n, d, e) ==
    IF BNCmp(n, d) < 0
    THEN (IF BNCmp(BNShiftLimb(n), d) < 0
          THEN Normalise(BNShiftLimb(n), d, e - 15)
          ELSE Normalise(BNDouble(n), d, e - 1))
    ELSE IF BNCmp(n, BNDouble(d)) >= 0
    THEN (IF BNCmp(n, BNShiftLimb(d)) >= 0
          THEN Normalise(n, BNShiftLimb(d), e + 15)
          ELSE Normalise(n, BNDouble(d), e + 1))
    ELSE [n |-> n, d |-> d, e |-> e]

\* 2^52: a quotient that has reached it has its 53 significant bits
TwoTo52 == <<0, 0, 0, 2^7>>

\* the quotient q so far and the remainder r < d behind it: one more bit
QuotientBit(qr, d) ==
    LET r2 == BNDouble(qr.r)
    IN  IF BNCmp(r2, d) >= 0
        THEN [q |-> BNAdd(BNDouble(qr.q), <<1>>), r |-> BNSub(r2, d)]
        ELSE [q |-> BNDouble(qr.q), r |-> r2]

QuotientBits4(qr, d) ==
    QuotientBit(QuotientBit(QuotientBit(QuotientBit(qr, d), d), d), d)

\* four bits at a time from q = 1, until q has 53 bits
RECURSIVE QuotientBits(_, _)
QuotientBits(qr, d) ==
    IF BNCmp(qr.q, TwoTo52) >= 0 THEN qr
    ELSE QuotientBits(QuotientBits4(qr, d), d)

\* the double nearest to n/d * 2^e, ties to even
RoundToDouble(n, d, e) ==
    IF n = <<>> THEN [m |-> <<>>, e |-> 0]
    ELSE LET scaled == Normalise(n, d, e)
             bits == QuotientBits([q |-> <<1>>, r |-> BNSub(scaled.n, scaled.d)],
                                  scaled.d)
             half == BNCmp(BNDouble(bits.r), scaled.d)
             up == half > 0 \/ (half = 0 /\ BNOdd(bits.q))
         IN  [m |-> IF up THEN BNAdd(bits.q, <<1>>) ELSE bits.q,
              e |-> scaled.e - 52]

\* (double) n for a natural n below 2^31
DoubleOf(n) == [m |-> BN(n), e |-> 0]
DoubleDiv(a, b) == RoundToDouble(a.m, b.m, a.e - b.e)
DoubleMul(a, b) == RoundToDouble(BNMul(a.m, b.m), <<1>>, a.e + b.e)
DoublePositive(a) == a.m # <<>>

\* floor(m * 2^e)
RECURSIVE ShiftToInt(_, _)
ShiftToInt(m, e) ==
    IF m = <<>> THEN <<>>
    ELSE IF e = 0 THEN m
    ELSE IF e > 0 THEN ShiftToInt(BNDouble(m), e - 1)
    ELSE IF e <= -15 THEN ShiftToInt(Tail(m), e + 15)
    ELSE ShiftToInt(BNHalf(m), e + 1)

\* (int) a for a >= 0: the fraction is discarded
IntOf(a) == BNToInt(ShiftToInt(a.m, a.e))

(***************************************************************************)
(* telemetry.c: get_current_time_ms.  gettimeofday reads the wall clock,   *)
(* which the system can set forward or back at any moment; a reading is a  *)
(* struct timeval.  Seconds are counted from an epoch near the run.        *)
(***************************************************************************)
get_current_time_ms(tv) == (tv.tv_sec * 1000) + (tv.tv_usec \div 1000)

\* the reading at line 181; only differences of readings enter the program
TimeAtStart == [tv_sec |-> 1000, tv_usec |-> 0]

\* readings at line 243: the clock set back by one sample period, the same
\* millisecond as the start, and whole sample periods later
TimeReadings ==
    {[tv_sec |-> 999, tv_usec |-> 900000],
     [tv_sec |-> 1000, tv_usec |-> 0],
     [tv_sec |-> 1000, tv_usec |-> 999]}
    \cup {[tv_sec |-> 1000, tv_usec |-> 100000 * k] : k \in 1..MaxRuntime}

(***************************************************************************)
(* main, lines 249-255: the CPU percentage, in double arithmetic, cut to   *)
(* an int; cpu_usage_percent keeps its value when runtime_ms is not        *)
(* positive.                                                               *)
(***************************************************************************)
\* lines 250-253 for a positive runtime_ms
InDoubles(ticks, runtime_ms) ==
    LET cpu_seconds == DoubleDiv(DoubleOf(ticks), DoubleOf(CLK_TCK))
        wall_seconds == DoubleDiv(DoubleOf(runtime_ms), DoubleOf(1000))
    IN  [wall_positive |-> DoublePositive(wall_seconds),
         percent |-> IntOf(DoubleMul(DoubleDiv(cpu_seconds, wall_seconds),
                                     DoubleOf(100)))]

\* the values total_ticks and a positive runtime_ms take here
TickReadings == {9 * k : k \in 0..MaxTicks}
PositiveRuntimes ==
    {r \in {get_current_time_ms(tv) - get_current_time_ms(TimeAtStart) :
               tv \in TimeReadings} : r > 0}

\* InDoubles, computed once for each of them
InDoublesTable ==
    [ticks \in TickReadings, runtime_ms \in PositiveRuntimes |->
        InDoubles(ticks, runtime_ms)]

cpu_usage_percent(before, ticks, runtime_ms) ==
    IF runtime_ms > 0
    THEN LET d == InDoublesTable[ticks, runtime_ms]
         IN  IF d.wall_positive THEN d.percent ELSE before
    ELSE before

(***************************************************************************)
(* Policy tables: the allow-list install_syscall_filter adds rule by rule  *)
(* (seccomp_rules.h 32-50) and the rlimit values of child_fn (75-97).      *)
(* The profile argument is ignored by both: install_syscall_filter is      *)
(* declared without parameters.                                            *)
(***************************************************************************)
AllowList ==
    {"execve", "brk", "mmap", "munmap", "mprotect", "exit_group", "exit",
     "arch_prctl", "write", "writev", "read", "fstat", "lseek", "close",
     "openat", "readlink", "getrandom"}

NoFilter == [def |-> "NONE", allow |-> {}]
\* ctx = seccomp_init(SCMP_ACT_KILL) plus the seventeen SCMP_ACT_ALLOW rules
BuildFilter(profile) == [def |-> "KILL", allow |-> AllowList]

Resources == {"RLIMIT_STACK", "RLIMIT_NOFILE", "RLIMIT_AS", "RLIMIT_NPROC"}
\* a vector with a tighter ceiling on processes under RESOURCE-AWARE
RlimitValueByProfile(profile) ==
    [r \in Resources |->
        CASE r = "RLIMIT_STACK" -> 8 * 1024 * 1024
          [] r = "RLIMIT_NOFILE" -> 64
          [] r = "RLIMIT_AS" -> 128 * 1024 * 1024
          [] r = "RLIMIT_NPROC" ->
               IF profile = "PROFILE_RESOURCE_AWARE" THEN 10 ELSE 20]

RlimitValue(profile) ==
    [r \in Resources |->
        CASE r = "RLIMIT_STACK" -> 8 * 1024 * 1024
          [] r = "RLIMIT_NOFILE" -> 64
          [] r = "RLIMIT_AS" -> 128 * 1024 * 1024
          [] r = "RLIMIT_NPROC" -> 20]
\* what the child inherits: no ceiling (RLIM_INFINITY, above every value set)
RLIM_INFINITY == 2^30 + (2^30 - 1)
Inherited == [cur |-> RLIM_INFINITY, max |-> RLIM_INFINITY]
\* or a hard ceiling already under the value child_fn asks for
InheritedBelow(v) == [cur |-> v - 1, max |-> v - 1]

\* kernel: setrlimit by a process without CAP_SYS_RESOURCE in the initial
\* user namespace (the child of CLONE_NEWUSER has none there): EPERM, and
\* nothing changed, when the new hard ceiling is above the old one
setrlimit(old, new) ==
    IF new.max > old.max THEN [ok |-> FALSE, limit |-> old]
    ELSE [ok |-> TRUE, limit |-> new]

(***************************************************************************)
(* Kernel: a syscall of a process under filter f.  Without a filter every  *)
(* syscall takes effect; with one, a syscall outside the allow-list gets   *)
(* the filter's default action.                                            *)
(***************************************************************************)
Permitted(f, s) == f.def = "NONE" \/ s \in f.allow

(***************************************************************************)
(* child_fn: the order of its steps.  cpc names the step the child is      *)
(* about to perform.                                                       *)
(***************************************************************************)
AfterFilterBeforeLimits(step) ==
    CASE step = "mount_private" -> "mount_rdonly"
      [] step = "mount_rdonly" -> "seccomp"
      [] step = "seccomp" -> "setrlimit"
      [] step = "setrlimit" -> "execv"

After(step) ==
    CASE step = "mount_private" -> "mount_rdonly"
      [] step = "mount_rdonly" -> "setrlimit"
      [] step = "setrlimit" -> "seccomp"
      [] step = "seccomp" -> "execv"

\* lines 51-63: a failed mount is reported with perror and the child goes on
AfterMountFatal(step, ok) == IF ok THEN After(step) ELSE "exit"

AfterMount(step, ok) == After(step)

\* install_syscall_filter: exit(1) when seccomp_init returns NULL or
\* seccomp_load fails, otherwise the filter is in force on return
InstallIgnoringLoadFailure(profile, initOk, loadOk) ==
    IF ~initOk THEN [exits |-> TRUE, filter |-> NoFilter]
    ELSE IF ~loadOk THEN [exits |-> FALSE, filter |-> NoFilter]
    ELSE [exits |-> FALSE, filter |-> BuildFilter(profile)]

install_syscall_filter(profile, initOk, loadOk) ==
    IF ~initOk THEN [exits |-> TRUE, filter |-> NoFilter]
    ELSE IF ~loadOk THEN [exits |-> TRUE, filter |-> NoFilter]
    ELSE [exits |-> FALSE, filter |-> BuildFilter(profile)]

\* a terminated process holds no mount namespace, limits or filter any more
GoneMounts == [private |-> "gone", rdonly |-> "gone"]
GoneLimits == [r \in Resources |-> [cur |-> 0, max |-> 0]]

\* the child terminates with d; it stays a zombie unless the parent ignores
\* SIGCHLD, in which case the kernel reaps it at once
Die(d) ==
    /\ death' = d
    /\ cpc' = "dead"
    /\ zombie' = ~sigchld_ignored
    /\ mounts' = GoneMounts
    /\ rlimits' = GoneLimits
    /\ filter' = NoFilter

\* the child attempts syscall s: killed by SIGSYS (default action KILL) when
\* the filter does not allow it
KilledByFilter ==
    \E core \in BOOLEAN : Die(Signaled(SIGSYS, core))

Alive(next) ==
    /\ cpc' = next
    /\ UNCHANGED <<death, zombie>>

MountPrivate ==
    /\ cpc = "mount_private"
    /\ trace' = Append(trace, "mount_private")
    /\ \E ok \in BOOLEAN :
         IF AfterMount("mount_private", ok) = "exit"
         THEN Die(Exited(1))
         ELSE /\ Alive(AfterMount("mount_private", ok))
              /\ mounts' = [mounts EXCEPT !.private = IF ok THEN "ok" ELSE "failed"]
              /\ UNCHANGED <<rlimits, filter>>
    /\ UNCHANGED <<tsteps, effected, denied>>
    /\ UNCHANGED <<image, supVars, envVars>>

MountReadOnly ==
    /\ cpc = "mount_rdonly"
    /\ trace' = Append(trace, "mount_rdonly")
    /\ \E ok \in BOOLEAN :
         IF AfterMount("mount_rdonly", ok) = "exit"
         THEN Die(Exited(1))
         ELSE /\ Alive(AfterMount("mount_rdonly", ok))
              /\ mounts' = [mounts EXCEPT !.rdonly = IF ok THEN "ok" ELSE "failed"]
              /\ UNCHANGED <<rlimits, filter>>
    /\ UNCHANGED <<tsteps, effected, denied>>
    /\ UNCHANGED <<image, supVars, envVars>>

\* lines 75-97: four setrlimit calls, soft and hard limit alike, return
\* values not looked at; a call that fails leaves that limit as it was
SetRlimits ==
    /\ cpc = "setrlimit"
    /\ trace' = Append(trace, "setrlimit")
    /\ rlimits' = [r \in Resources |->
                      setrlimit(rlimits[r],
                                [cur |-> RlimitValue(config.profile)[r],
                                 max |-> RlimitValue(config.profile)[r]]).limit]
    /\ Alive(After("setrlimit"))
    /\ UNCHANGED <<mounts, filter, tsteps, effected, denied>>
    /\ UNCHANGED <<image, supVars, envVars>>

InstallSyscallFilter ==
    /\ cpc = "seccomp"
    /\ \E initOk \in BOOLEAN, loadOk \in BOOLEAN :
         LET r == install_syscall_filter(config.profile, initOk, loadOk)
         IN  /\ trace' = Append(trace, IF r.filter = NoFilter
                                       THEN "seccomp_failed" ELSE "seccomp")
             /\ IF r.exits
                THEN Die(Exited(1))
                ELSE /\ Alive(After("seccomp"))
                     /\ filter' = r.filter
                     /\ UNCHANGED <<mounts, rlimits>>
    /\ UNCHANGED <<tsteps, effected, denied>>
    /\ UNCHANGED <<image, supVars, envVars>>

\* lines 110-115: execv; when it returns it failed and child_fn returns 1.
\* execve is itself a syscall under the filter just loaded.
Execv ==
    /\ cpc = "execv"
    /\ IF ~Permitted(filter, "execve")
       THEN /\ trace' = Append(trace, "execv_killed")
            /\ KilledByFilter
            /\ UNCHANGED image
       ELSE \E ok \in BOOLEAN :
              IF ok
              THEN /\ trace' = Append(trace, "execv")
                   /\ image' = [path |-> config.binary_path,
                                 args |-> config.args]
                   /\ Alive("target")
                   /\ UNCHANGED <<mounts, rlimits, filter>>
              ELSE /\ trace' = Append(trace, "execv_failed")
                   /\ Die(Exited(1))
                   /\ UNCHANGED image
    /\ UNCHANGED <<tsteps, effected, denied>>
    /\ UNCHANGED <<supVars, envVars>>

(***************************************************************************)
(* The untrusted target, as the kernel sees it: a bounded run of syscalls  *)
(* under the child's filter, ended by exit_group or by the filter.  A      *)
(* fatal signal (a fault, the OOM killer, a cgroup kill, a signal sent     *)
(* from outside) can end the child at any point of its life.               *)
(***************************************************************************)
TargetSyscalls == {"write", "socket", "setrlimit"}
\* exit codes are 0..255; the largest is always among those tried
ExitCodes == (0..MaxExitCode) \cup {255}
\* SIGKILL, SIGSYS, SIGSEGV (dumps core), SIGTERM, SIGRTMAX
FatalSignals == {SIGKILL, SIGSYS, 11, 15, 64}

TargetSyscall ==
    /\ cpc = "target"
    /\ tsteps < MaxSyscalls
    /\ tsteps' = tsteps + 1
    /\ \E s \in TargetSyscalls :
         IF Permitted(filter, s)
         THEN /\ effected' = effected \cup {s}
              /\ UNCHANGED <<cpc, death, zombie, denied, mounts, rlimits, filter>>
         ELSE /\ denied' = TRUE
              /\ KilledByFilter
              /\ UNCHANGED effected
    /\ UNCHANGED trace
    /\ UNCHANGED <<image, supVars, envVars>>

TargetExit ==
    /\ cpc = "target"
    /\ \E c \in ExitCodes :
         IF Permitted(filter, "exit_group")
         THEN Die(Exited(c)) /\ UNCHANGED denied
         ELSE denied' = TRUE /\ KilledByFilter
    /\ UNCHANGED <<trace, tsteps, effected>>
    /\ UNCHANGED <<image, supVars, envVars>>

ChildSignaled ==
    /\ cpc \notin {"none", "dead"}
    /\ \E n \in FatalSignals, core \in BOOLEAN :
         Die(Signaled(n, core /\ n \in CoreSignals))
    /\ UNCHANGED <<trace, tsteps, effected, denied>>
    /\ UNCHANGED <<image, supVars, envVars>>

(***************************************************************************)
(* Supervisor: main.                                                       *)
(***************************************************************************)
Exit(code) ==
    /\ pc' = "exited"
    /\ exit_code' = code

\* lines 123-155
ParseArguments ==
    /\ pc = "parse"
    /\ UNCHANGED flags
    /\ LET parsed == ParseArgs(argv)
       IN  IF parsed.usage
           THEN /\ Exit(1)
                /\ stderr' = stderr \cup {"Usage"}
                /\ UNCHANGED <<config, profile_str>>
           ELSE /\ pc' = "malloc"
                /\ config' = MakeConfig(argv, parsed)
                /\ profile_str' = parsed.profile_str
                /\ UNCHANGED <<exit_code, stderr>>
    /\ UNCHANGED <<start_time, current_mem,
                   stack, child_pid, result, status, log_data, total_ticks,
                   log_calls, log_files>>
    /\ UNCHANGED <<childVars, envVars>>

\* lines 158-162: a NULL stack ends the run with exit(1)
AfterMalloc(ok) == IF ok THEN "clone" ELSE "exit1"

AllocateStack ==
    /\ pc = "malloc"
    /\ UNCHANGED flags
    /\ \E ok \in BOOLEAN :
         /\ stack' = IF ok THEN "allocated" ELSE "none"
         /\ stderr' = IF ok THEN stderr ELSE stderr \cup {"malloc stack"}
         /\ IF AfterMalloc(ok) = "exit1"
            THEN Exit(1)
            ELSE pc' = AfterMalloc(ok) /\ UNCHANGED exit_code
    /\ UNCHANGED <<start_time, current_mem,
                   config, profile_str, child_pid, result, status, log_data,
                   total_ticks, log_calls, log_files>>
    /\ UNCHANGED <<childVars, envVars>>

\* line 179: the namespaces asked of clone, and the signal sent at the
\* child's death; the same whatever the profile
CloneFlags ==
    {"CLONE_NEWNS", "CLONE_NEWPID", "CLONE_NEWIPC", "CLONE_NEWUTS",
     "CLONE_NEWUSER", "SIGCHLD"}

\* lines 186-189: clone returning -1 ends the run with exit(1)
AfterCloneFallThrough(pid) == "loop"

AfterClone(pid) == IF pid = -1 THEN "exit1" ELSE "loop"

\* lines 179-206: clone with the namespace flags; on success the child starts
\* child_fn and log_data is set up
Clone ==
    /\ pc = "clone"
    /\ flags' = CloneFlags
    /\ start_time' = get_current_time_ms(TimeAtStart)
    /\ UNCHANGED current_mem
    /\ \E ok \in BOOLEAN :
         LET pid == IF ok /\ stack = "allocated" THEN ChildPid ELSE -1
         IN  /\ child_pid' = pid
             /\ stderr' = IF pid = -1 THEN stderr \cup {"clone failed"}
                          ELSE stderr
             /\ IF pid # -1
                THEN /\ cpc' = "mount_private"
                     /\ \E low \in SUBSET Resources :
                          /\ Cardinality(low) <= MaxRlimitFailures
                          /\ rlimits' =
                                [r \in Resources |->
                                   IF r \in low
                                   THEN InheritedBelow(
                                           RlimitValue(config.profile)[r])
                                   ELSE Inherited]
                ELSE UNCHANGED <<cpc, rlimits>>
             /\ IF AfterClone(pid) = "exit1"
                THEN /\ Exit(1)
                     /\ UNCHANGED log_data
                ELSE /\ pc' = AfterClone(pid)
                     /\ log_data' = [ZeroLog EXCEPT
                                        !.program_name = config.binary_path,
                                        !.profile_name = profile_str]
                     /\ UNCHANGED exit_code
    /\ UNCHANGED <<config, profile_str, stack, result, status, total_ticks,
                   log_calls, log_files>>
    /\ UNCHANGED <<trace, mounts, filter, death, zombie, tsteps,
                   effected, denied, image>>
    /\ UNCHANGED envVars

\* kernel: waitpid(child_pid, &status, WNOHANG).  0 while the child runs, its
\* pid when it is a zombie, -1 (ECHILD) when there is no such child: none was
\* created, or SIGCHLD is ignored and the kernel has reaped it already
Waitpid ==
    IF cpc = "none" THEN -1
    ELSE IF death = NoDeath THEN 0
    ELSE IF zombie THEN child_pid
    ELSE -1

\* what /proc/<pid>/stat holds at a poll: unreadable, or the three counters
\* (the major faults none, or as many as the minor ones)
StatReadings ==
    {[ok |-> FALSE, ticks |-> 0, minflt |-> 0, majflt |-> 0]}
    \cup UNION {{[ok |-> TRUE, ticks |-> t, minflt |-> mn, majflt |-> mj] :
                    t \in TickReadings, mj \in {0, mn}} : mn \in 0..MaxFlt}

\* the kernel's fault counters only grow: a reading that succeeds is not
\* under the counters a poll has stored before
StatReadingsAfter(log) ==
    {r \in StatReadings :
        r.ok => r.minflt >= log.minflt /\ r.majflt >= log.majflt}

\* get_process_metrics: 0 when /proc/<pid>/stat cannot be read, and then the
\* two fault outputs keep the 0 that main initialised them with (line 223)
get_process_metrics(r) ==
    IF ~r.ok THEN [ticks |-> 0, minflt |-> 0, majflt |-> 0]
    ELSE [ticks |-> r.ticks, minflt |-> r.minflt, majflt |-> r.majflt]

\* what /proc/<pid>/status holds at a poll: unreadable, or VmPeak in kB
MemReadings ==
    {[ok |-> FALSE, kb |-> 0]} \cup [ok : {TRUE}, kb : 0..MaxMem]

\* get_memory_peak: 0 when /proc/<pid>/status cannot be read
get_memory_peak(r) == IF r.ok THEN r.kb ELSE 0

\* a peak that takes every reading, lower ones too
RaisePeakToLatest(peak, reading) == reading

\* lines 218-220
RaisePeak(peak, reading) == IF reading > peak THEN reading ELSE peak

\* a loop that polls again after waitpid has failed
AfterPollRetryingError(res) ==
    IF res = 0 \/ res = -1 THEN "loop" ELSE "classify"

\* lines 215, 234-240: child_running stays 1 only when waitpid returned 0
AfterPoll(res) == IF res = 0 THEN "loop" ELSE "classify"

\* lines 213-233: result == 0
PollRunning ==
    /\ pc = "loop"
    /\ UNCHANGED flags
    /\ Waitpid = 0
    /\ result' = 0
    /\ pc' = AfterPoll(0)
    /\ \E vmpeak \in MemReadings, r \in StatReadingsAfter(log_data) :
         LET m == get_process_metrics(r)
         IN  /\ current_mem' = get_memory_peak(vmpeak)
             /\ log_data' = [log_data EXCEPT
                   !.memory_peak_kb = RaisePeak(@, get_memory_peak(vmpeak)),
                   !.minflt = m.minflt,
                   !.majflt = m.majflt]
             /\ total_ticks' = IF m.ticks > total_ticks THEN m.ticks
                               ELSE total_ticks
    /\ UNCHANGED <<start_time, exit_code, config, profile_str, stack,
                   child_pid, status, log_calls, log_files, stderr>>
    /\ UNCHANGED <<childVars, envVars>>

\* lines 213, 237-240: the child is reaped and its status stored
PollReaped ==
    /\ pc = "loop"
    /\ UNCHANGED flags
    /\ Waitpid = child_pid
    /\ result' = child_pid
    /\ status' = [stored |-> TRUE, val |-> EncodeStatus(death)]
    /\ zombie' = FALSE
    /\ pc' = AfterPoll(child_pid)
    /\ current_mem' = 0
    /\ UNCHANGED <<start_time, exit_code, config, profile_str, stack, child_pid,
                   log_data, total_ticks, log_calls, log_files, stderr>>
    /\ UNCHANGED <<cpc, trace, mounts, rlimits, filter, death, tsteps, effected,
                   denied, image>>
    /\ UNCHANGED envVars

\* lines 213, 234-236: waitpid failed; status is not written
PollError ==
    /\ pc = "loop"
    /\ UNCHANGED flags
    /\ Waitpid = -1
    /\ result' = -1
    /\ stderr' = stderr \cup {"waitpid"}
    /\ pc' = AfterPoll(-1)
    /\ current_mem' = 0
    /\ UNCHANGED <<start_time, exit_code, config, profile_str, stack, child_pid,
                   status, log_data, total_ticks, log_calls, log_files>>
    /\ UNCHANGED <<childVars, envVars>>

\* lines 243-255: the run time from a second reading of the clock, and
\* the CPU percentage from it
Measure(log, end_tv, ticks, start) ==
    LET end_time == get_current_time_ms(end_tv)
        runtime_ms == end_time - start
    IN  [log EXCEPT !.runtime_ms = runtime_ms,
                    !.cpu_usage_percent = cpu_usage_percent(@, ticks, runtime_ms)]

\* lines 243-277.  When waitpid never stored a status the macros read an
\* uninitialised int: any value.
ClassifyStatus ==
    /\ pc = "classify"
    /\ UNCHANGED flags
    /\ \E end_tv \in TimeReadings,
          s \in (IF status.stored THEN {status.val} ELSE GarbageStatuses) :
         log_data' = Classify(Measure(log_data, end_tv, total_ticks, start_time), s)
    /\ pc' = "log"
    /\ UNCHANGED <<exit_code, config, profile_str, stack, child_pid, result,
                   status, start_time, current_mem, total_ticks,
                   log_calls, log_files, stderr>>
    /\ UNCHANGED <<childVars, envVars>>

\* log_telemetry: fopen(filename, "w") fails when logs/ is absent or not
\* writable; then perror and return, nothing written.  Nothing creates
\* logs/ before the call.
LogsDirStates == {"absent", "writable", "unwritable"}

\* the directory a run meets: any, and the same once it has been looked at
LogsDirFound == IF logs_dir = "unseen" THEN LogsDirStates ELSE {logs_dir}

\* telemetry.c: ensure_logs_directory.  mkdir when stat finds nothing; the
\* result of mkdir is not looked at
ensure_logs_directory(dir, mkdir_ok) ==
    IF dir = "absent" /\ mkdir_ok THEN "writable" ELSE dir

\* the JSON document: the three timeline arrays, each written by a loop over
\* i < sample_count reading samples[i], then the summary fields
Document(log) ==
    [program_name |-> log.program_name,
     profile_name |-> log.profile_name,
     time_ms |-> [i \in 1..log.sample_count |-> log.samples.mem[i].time_ms],
     cpu_percent |-> [i \in 1..log.sample_count |-> log.samples.mem[i].cpu_percent],
     memory_kb |-> [i \in 1..log.sample_count |-> log.samples.mem[i].memory_kb],
     runtime_ms |-> log.runtime_ms,
     cpu_usage_percent |-> log.cpu_usage_percent,
     memory_peak_kb |-> log.memory_peak_kb,
     minflt |-> log.minflt,
     majflt |-> log.majflt,
     termination_signal |-> log.termination_signal,
     blocked_syscall |-> log.blocked_syscall,
     exit_reason |-> log.exit_reason]

log_telemetry(dir, files, log) ==
    IF dir = "writable"
    THEN [files |-> Append(files, Document(log)), err |-> {}]
    ELSE [files |-> files, err |-> {"fopen telemetry log"}]

(***************************************************************************)
(* telemetry.c: add_sample.  The first call allocates the buffer; malloc's *)
(* result is not looked at, so with a NULL result the store that follows   *)
(* goes through a null pointer (fault).                                    *)
(***************************************************************************)
Sample(elapsed_ms, cpu_percent, mem_kb) ==
    [time_ms |-> elapsed_ms, cpu_percent |-> cpu_percent, memory_kb |-> mem_kb]

add_sample(log, malloc_ok, elapsed_ms, cpu_percent, mem_kb) ==
    LET l1 == IF log.samples.null
              THEN [log EXCEPT !.samples = [null |-> ~malloc_ok, mem |-> <<>>],
                               !.sample_count = 0]
              ELSE log
        s == Sample(elapsed_ms, cpu_percent, mem_kb)
    IN  IF l1.sample_count < MAX_SAMPLES
        THEN IF l1.samples.null
             THEN [fault |-> TRUE, log |-> l1]
             ELSE [fault |-> FALSE,
                   log |-> [l1 EXCEPT
                      !.samples.mem = SubSeq(@, 1, l1.sample_count) \o <<s>>,
                      !.sample_count = @ + 1]]
        ELSE [fault |-> FALSE, log |-> l1]

\* an exit status that reports the failed write
ExitStatusFailingOnError(err) == IF err = {} THEN 0 ELSE 1

\* lines 282-285: log_telemetry returns nothing; main returns 0 after it
ExitStatusAfterLog(err) == 0

\* lines 279-285: one call of log_telemetry, free(stack), return 0
EmitLog ==
    /\ pc = "log"
    /\ UNCHANGED flags
    /\ \E dir \in LogsDirFound :
         LET w == log_telemetry(dir, log_files, log_data)
         IN  /\ log_files' = w.files
             /\ stderr' = stderr \cup w.err
             /\ logs_dir' = dir
             /\ Exit(ExitStatusAfterLog(w.err))
    /\ log_calls' = log_calls + 1
    /\ stack' = "freed"
    /\ UNCHANGED <<start_time, current_mem,
                   config, profile_str, child_pid, result, status,
                   log_data, total_ticks>>
    /\ UNCHANGED <<childVars, argv, sigchld_ignored, feed, add_calls, sharedVars>>

\* the outer wrapper's deadline: SIGKILL to the supervisor, at any point.
\* Its memory goes with it; the files it wrote and the child it made stay.
KillSupervisor ==
    /\ pc \notin {"exited", "killed"}
    /\ pc' = "killed"
    /\ stack' = "none"
    /\ result' = 0
    /\ status' = [stored |-> FALSE, val |-> 0]
    /\ log_data' = ZeroLog
    /\ total_ticks' = 0
    /\ UNCHANGED flags
    /\ start_time' = 0
    /\ current_mem' = 0
    /\ UNCHANGED <<exit_code, config, profile_str, child_pid, log_calls,
                   log_files, stderr>>
    /\ UNCHANGED <<childVars, envVars>>

\* main is entered: nothing done yet, no child
\* lines 279-281: the name of the log file, from the second time(NULL) returns
LogFilename(t) == "logs/run_" \o ToString(t) \o ".json"

Seconds == 0..MaxSeconds
NoFile == [absent |-> TRUE]
Supervisors == {1, 2}

\* one launcher alone in its directory
NoPeers ==
    /\ clock = 0
    /\ run_files = [n \in {LogFilename(t) : t \in Seconds} |-> NoFile]
    /\ peers = [i \in Supervisors |-> [pc |-> "none", log |-> ZeroLog,
                                         filename |-> ""]]

Fresh ==
    /\ pc = "parse"
    /\ exit_code = -1
    /\ config = NoConfig
    /\ profile_str = "STRICT"
    /\ stack = "none"
    /\ child_pid = 0
    /\ result = 0
    /\ status = [stored |-> FALSE, val |-> 0]
    /\ flags = {}
    /\ start_time = 0
    /\ current_mem = 0
    /\ log_data = ZeroLog
    /\ total_ticks = 0
    /\ log_calls = 0
    /\ log_files = <<>>
    /\ stderr = {}
    /\ cpc = "none"
    /\ trace = <<>>
    /\ mounts = [private |-> "untried", rdonly |-> "untried"]
    /\ rlimits = [r \in Resources |-> Inherited]
    /\ filter = NoFilter
    /\ death = NoDeath
    /\ zombie = FALSE
    /\ tsteps = 0
    /\ effected = {}
    /\ denied = FALSE
    /\ image = NoImage
    /\ logs_dir = "unseen"
    /\ feed = [step_ms |-> 100, cpu |-> 0]
    /\ add_calls = 0

Init ==
    /\ argv \in ArgVectors
    /\ sigchld_ignored \in BOOLEAN
    /\ Fresh
    /\ NoPeers

Next ==
    \/ ParseArguments
    \/ AllocateStack
    \/ Clone
    \/ PollRunning
    \/ PollReaped
    \/ PollError
    \/ ClassifyStatus
    \/ EmitLog
    \/ KillSupervisor
    \/ MountPrivate
    \/ MountReadOnly
    \/ SetRlimits
    \/ InstallSyscallFilter
    \/ Execv
    \/ TargetSyscall
    \/ TargetExit
    \/ ChildSignaled

Spec == Init /\ [][Next]_vars

(***************************************************************************)
(* The command line alone: every vector of up to MaxArgs tokens after the  *)
(* program name, taken through main up to clone and through child_fn up to *)
(* execv.                                                                  *)
(***************************************************************************)
Tokens ==
    {Opt("STRICT"), Opt("RESOURCE-AWARE"), Opt("LEARNING"), Opt("BOGUS"),
     Word("prog"), Word("arg")}

AllArgVectors ==
    {<<Word("launcher")>> \o rest :
        rest \in UNION {[1..n -> Tokens] : n \in 0..MaxArgs}}

ArgsInit ==
    /\ argv \in AllArgVectors
    /\ sigchld_ignored = FALSE
    /\ Fresh
    /\ NoPeers

ArgsNext ==
    \/ ParseArguments
    \/ AllocateStack
    \/ Clone
    \/ MountPrivate
    \/ MountReadOnly
    \/ SetRlimits
    \/ InstallSyscallFilter
    \/ Execv

ArgsSpec == ArgsInit /\ [][ArgsNext]_vars

(***************************************************************************)
(* Scheduling.  The supervisor's own code and the child's setup code run   *)
(* on when they can: the kernel schedules every runnable process.  Nothing *)
(* makes the untrusted target issue a syscall or exit (cpu_hog loops for   *)
(* ever), and nothing makes anyone send a signal: no fairness for those.   *)
(***************************************************************************)
SupervisorStep ==
    \/ ParseArguments
    \/ AllocateStack
    \/ Clone
    \/ PollReaped
    \/ PollError
    \/ ClassifyStatus
    \/ EmitLog

ChildSetupStep ==
    \/ MountPrivate
    \/ MountReadOnly
    \/ SetRlimits
    \/ InstallSyscallFilter
    \/ Execv

FairSpec == Spec /\ WF_vars(SupervisorStep) /\ WF_vars(ChildSetupStep)

\* one launcher given a program and no option, scheduled as above
RunInit ==
    /\ argv = <<Word("launcher"), Word("prog")>>
    /\ sigchld_ignored \in BOOLEAN
    /\ Fresh
    /\ NoPeers

FairRunSpec ==
    RunInit /\ [][Next]_vars /\ WF_vars(SupervisorStep) /\ WF_vars(ChildSetupStep)

(***************************************************************************)
(* The recorder driven alone: a caller that holds a zero-initialised log,  *)
(* calls add_sample any number of times and then log_telemetry once.  The  *)
(* arguments of the n-th call are fixed by the feed chosen at the start,   *)
(* so that the entries differ from call to call.                           *)
(***************************************************************************)
Feeds == [step_ms : {0, 100}, cpu : {0, 100}]

NthSample(f, n) == Sample(n * f.step_ms, (f.cpu + n) % 101, n)

nonRecorderVars ==
    <<argv, sigchld_ignored, exit_code, config, profile_str, stack, child_pid,
      result, status, start_time, current_mem, total_ticks, flags, childVars,
      sharedVars>>

RecorderInit ==
    /\ argv = <<Word("launcher"), Word("prog")>>
    /\ sigchld_ignored = FALSE
    /\ pc = "recording"
    /\ exit_code = -1
    /\ config = NoConfig
    /\ profile_str = "STRICT"
    /\ stack = "none"
    /\ child_pid = 0
    /\ result = 0
    /\ status = [stored |-> FALSE, val |-> 0]
    /\ flags = {}
    /\ start_time = 0
    /\ current_mem = 0
    /\ log_data = ZeroLog
    /\ total_ticks = 0
    /\ log_calls = 0
    /\ log_files = <<>>
    /\ stderr = {}
    /\ cpc = "none"
    /\ trace = <<>>
    /\ mounts = [private |-> "untried", rdonly |-> "untried"]
    /\ rlimits = [r \in Resources |-> Inherited]
    /\ filter = NoFilter
    /\ death = NoDeath
    /\ zombie = FALSE
    /\ tsteps = 0
    /\ effected = {}
    /\ denied = FALSE
    /\ image = NoImage
    /\ logs_dir \in LogsDirStates
    /\ feed \in Feeds
    /\ add_calls = 0
    /\ NoPeers

AddSample ==
    /\ pc = "recording"
    /\ add_calls < MAX_SAMPLES + MaxOverflow
    /\ add_calls' = add_calls + 1
    /\ \E malloc_ok \in BOOLEAN :
         LET n == add_calls + 1
             x == NthSample(feed, n)
             r == add_sample(log_data, malloc_ok, x.time_ms, x.cpu_percent,
                             x.memory_kb)
         IN  /\ log_data' = r.log
             /\ pc' = IF r.fault THEN "crashed" ELSE pc
    /\ UNCHANGED <<logs_dir, feed, log_calls, log_files, stderr>>
    /\ UNCHANGED nonRecorderVars

\* a caller that makes sure of logs/ before it writes
EnsureLogsDirectory ==
    /\ pc = "recording"
    /\ \E mkdir_ok \in BOOLEAN :
         logs_dir' = ensure_logs_directory(logs_dir, mkdir_ok)
    /\ UNCHANGED <<feed, add_calls, log_data, log_calls, log_files, stderr, pc>>
    /\ UNCHANGED nonRecorderVars

WriteLog ==
    /\ pc = "recording"
    /\ \E dir \in LogsDirFound :
         LET w == log_telemetry(dir, log_files, log_data)
         IN  /\ log_files' = w.files
             /\ stderr' = stderr \cup w.err
    /\ log_calls' = log_calls + 1
    /\ pc' = "written"
    /\ UNCHANGED <<logs_dir, feed, add_calls, log_data>>
    /\ UNCHANGED nonRecorderVars

RecorderNext ==
    \/ AddSample
    \/ EnsureLogsDirectory
    \/ WriteLog

RecorderSpec == RecorderInit /\ [][RecorderNext]_vars

(***************************************************************************)
(* Supervisors side by side.  Two launchers run in one working directory   *)
(* with logs/ in place; each has reached line 279 with its summary         *)
(* computed, and what remains of main is the naming and the writing of the *)
(* log.  The clock of the machine moves on between their steps or not.     *)
(***************************************************************************)
\* the summary a supervisor holds at line 279
SummariesAtEnd ==
    {[ZeroLog EXCEPT !.program_name = p, !.profile_name = "STRICT",
                     !.exit_reason = ExitedReason(c)] :
        p \in {"prog", "other"}, c \in 0..MaxExitCode}

\* fopen(filename, "w") and the fprintf calls up to fclose: the file is
\* created, or cut to nothing, and then holds this document
WriteTruncating(files, filename, doc) == [files EXCEPT ![filename] = doc]

SharedDirInit ==
    /\ argv = <<Word("launcher"), Word("prog")>>
    /\ sigchld_ignored = FALSE
    /\ Fresh
    /\ clock = 0
    /\ run_files = [n \in {LogFilename(t) : t \in Seconds} |-> NoFile]
    /\ peers \in [Supervisors -> {[pc |-> "log", log |-> l, filename |-> ""] :
                                     l \in SummariesAtEnd}]

\* a second of wall-clock time goes by
SecondPasses ==
    /\ clock < MaxSeconds
    /\ clock' = clock + 1
    /\ UNCHANGED <<run_files, peers>>
    /\ UNCHANGED <<supVars, childVars, argv, sigchld_ignored, logs_dir, feed,
                   add_calls>>

\* lines 279-285 in supervisor i
PeerEmitLog(i) ==
    /\ peers[i].pc = "log"
    /\ LET filename == LogFilename(clock)
       IN  /\ run_files' = WriteTruncating(run_files, filename,
                                           Document(peers[i].log))
           /\ peers' = [peers EXCEPT ![i].pc = "exited",
                                     ![i].filename = filename]
    /\ UNCHANGED clock
    /\ UNCHANGED <<supVars, childVars, argv, sigchld_ignored, logs_dir, feed,
                   add_calls>>

SharedDirNext ==
    \/ SecondPasses
    \/ \E i \in Supervisors : PeerEmitLog(i)

SharedDirSpec == SharedDirInit /\ [][SharedDirNext]_vars

(***************************************************************************)
(* Vocabulary of the properties.                                           *)
(***************************************************************************)
\* the step a trace entry records, whatever its outcome
StepOf(e) ==
    CASE e \in {"seccomp", "seccomp_failed"} -> "seccomp"
      [] e \in {"execv", "execv_failed", "execv_killed"} -> "execv"
      [] OTHER -> e

SetupOrder == <<"mount_private", "mount_rdonly", "setrlimit", "seccomp", "execv">>

\* the child has called execv (whether or not the call succeeded)
ExecvAttempted == \E i \in 1..Len(trace) : StepOf(trace[i]) = "execv"

FilterLoaded == filter.def = "KILL" /\ filter.allow = AllowList

\* the supervisor obtained the child's status from waitpid
Reaped == status.stored

\* the summary the supervisor holds has been classified
Classified == pc \in {"log", "exited"} /\ child_pid = ChildPid

ReasonFor(d) ==
    IF d.kind = "exit" THEN "EXITED(" \o ToString(d.code) \o ")"
    ELSE IF d.sig = 31 THEN "SECURITY_VIOLATION"
    ELSE IF d.sig = 9 THEN "KILLED_BY_OS"
    ELSE "SIGNALED"

(***************************************************************************)
(* C1.  The child calls execv only with the syscall filter loaded: in no   *)
(* state is the child at the execv call, or the target running, without    *)
(* the kill-by-default filter with the allow-list in force, and every      *)
(* execv in the child's trace comes after a successful filter load.        *)
(***************************************************************************)
C1_FilterBeforeExec ==
    /\ cpc \in {"execv", "target"} => FilterLoaded
    /\ \A i \in 1..Len(trace) :
         StepOf(trace[i]) = "execv" => \E j \in 1..(i - 1) : trace[j] = "seccomp"

C1_Witness == cpc = "target" /\ FilterLoaded /\ tsteps > 0

(***************************************************************************)
(* C2.  For every profile, the steps the child has performed are always a  *)
(* prefix of: mount privatization, read-only remount, rlimits, filter      *)
(* load, execv; so a child that reached execv performed all five, in that  *)
(* order, none skipped.                                                    *)
(***************************************************************************)
C2_SetupOrder ==
    /\ Len(trace) <= Len(SetupOrder)
    /\ \A i \in 1..Len(trace) : StepOf(trace[i]) = SetupOrder[i]
    /\ cpc = "target" => trace = SetupOrder

C2_Witness ==
    cpc = "target" /\ trace = SetupOrder /\ config.profile = "PROFILE_LEARNING"

(***************************************************************************)
(* C3.  When the stack allocation or clone failed, the supervisor has      *)
(* exited with status 1, no child exists (the target never runs), waitpid  *)
(* was never called and log_telemetry was never called.                    *)
(***************************************************************************)
SetupFailed == "malloc stack" \in stderr \/ "clone failed" \in stderr

C4_ReapedStatusClassified ==
    Reaped =>
        /\ Classified => log_data.exit_reason = ReasonFor(death)
        /\ \A i \in 1..Len(log_files) : log_files[i].exit_reason = ReasonFor(death)

C4_Witness ==
    /\ Reaped
    /\ Len(log_files) = 1
    /\ death = Signaled(SIGKILL, FALSE)
    /\ log_files[1].exit_reason = "KILLED_BY_OS"

(***************************************************************************)
(* C5.  Every emitted summary has termination "SIG<n>" when the child died *)
(* from signal n and empty when it exited normally, and blocked_syscall    *)
(* "Unknown(SIGSYS)" exactly when the child died from SIGSYS, else empty.  *)
(* Violated: after a failed waitpid the labels come from an int that was   *)
(* never written.                                                          *)
(***************************************************************************)
LabelsMatch(L, d) ==
    /\ d.kind = "signal" => L.termination_signal = "SIG" \o ToString(d.sig)
    /\ d.kind = "exit" => L.termination_signal = ""
    /\ L.blocked_syscall =
         (IF d.kind = "signal" /\ d.sig = 31 THEN "Unknown(SIGSYS)" ELSE "")

C5_SummaryLabels ==
    \A i \in 1..Len(log_files) : LabelsMatch(log_files[i], death)

\* the labels are those of the child's death in every summary written from
\* a status that waitpid stored
LabelsMatchWhenReaped ==
    Reaped => \A i \in 1..Len(log_files) : LabelsMatch(log_files[i], death)

(***************************************************************************)
(* C6.  No syscall outside the allow-list takes effect: the target's first *)
(* attempt at one kills it with SIGSYS.  Every summary of such a child     *)
(* says SECURITY_VIOLATION, and every summary of a target that made only   *)
(* allowed syscalls and exited says EXITED(<code>).                        *)
(* Violated: after a failed waitpid the summary does not reflect the       *)
(* child's death.                                                          *)
(***************************************************************************)
TargetCompleted == trace = SetupOrder /\ death.kind = "exit" /\ ~denied

ReasonMatchesFilter(L) ==
    /\ denied => L.exit_reason = "SECURITY_VIOLATION"
    /\ TargetCompleted => \E c \in 0..255 : L.exit_reason = "EXITED(" \o ToString(c) \o ")"

FilterKillsAtFirstAttempt ==
    /\ effected \subseteq AllowList
    /\ denied => death.kind = "signal" /\ death.sig = 31

C6_AllowListEnforced ==
    /\ FilterKillsAtFirstAttempt
    /\ \A i \in 1..Len(log_files) : ReasonMatchesFilter(log_files[i])

\* the kernel side of C6, and the logged reason on runs that reaped the child
AllowListEnforcedWhenReaped ==
    /\ FilterKillsAtFirstAttempt
    /\ Reaped => \A i \in 1..Len(log_files) : ReasonMatchesFilter(log_files[i])

(***************************************************************************)
(* C7.  A supervisor that created a child and returned from main has       *)
(* written exactly one log, never more than one, and only after it left    *)
(* the monitoring loop.                                                    *)
(* Violated: fopen fails when logs/ is missing (nothing creates it) or not *)
(* writable, and the run ends with no log.                                 *)
(***************************************************************************)
RanToEnd == pc = "exited" /\ child_pid = ChildPid

C7_ExactlyOneLog ==
    /\ Len(log_files) <= 1
    /\ Len(log_files) >= 1 => pc = "exited"
    /\ RanToEnd => Len(log_files) = 1

\* what does hold: log_telemetry is called exactly once per run that ends,
\* after the loop, and writes at most one file
OneLogCallPerRun ==
    /\ Len(log_files) <= log_calls
    /\ log_calls <= 1
    /\ RanToEnd <=> log_calls = 1

(***************************************************************************)
(* C8.  A log is written if and only if the supervisor reaped the child:   *)
(* every written log comes from a status waitpid stored, and every run     *)
(* that reaped the child and ended has written its log.                    *)
(* Violated: a failed waitpid still leads to log_telemetry; and a reaped   *)
(* run whose fopen fails writes nothing.                                   *)
(***************************************************************************)
C8_LogIffReaped ==
    /\ Len(log_files) >= 1 => Reaped
    /\ (pc = "exited" /\ Reaped) => Len(log_files) >= 1

(***************************************************************************)
(* C9.  A child whose filter could not be created or loaded terminated     *)
(* with exit status 1 without calling execv; a child whose execv failed    *)
(* terminated with exit status 1; in both cases the target never ran and   *)
(* the supervisor's summary says EXITED(1).                                *)
(* Violated: after a failed waitpid the summary is not that of the child.  *)
(***************************************************************************)
FilterFailed == \E i \in 1..Len(trace) : trace[i] = "seccomp_failed"
ExecvFailed == \E i \in 1..Len(trace) : trace[i] = "execv_failed"

ChildExitsOneBeforeExec ==
    /\ FilterFailed => death = Exited(1) /\ ~ExecvAttempted
    /\ ExecvFailed => death = Exited(1)
    /\ (FilterFailed \/ ExecvFailed) => cpc = "dead" /\ tsteps = 0 /\ effected = {}

SummarySaysExitedOne ==
    /\ Classified => log_data.exit_reason = "EXITED(1)"
    /\ \A i \in 1..Len(log_files) : log_files[i].exit_reason = "EXITED(1)"

C9_PreExecFailure ==
    /\ ChildExitsOneBeforeExec
    /\ (FilterFailed \/ ExecvFailed) => SummarySaysExitedOne

\* the child side of C9, and the summary on runs that reaped the child
PreExecFailureWhenReaped ==
    /\ ChildExitsOneBeforeExec
    /\ ((FilterFailed \/ ExecvFailed) /\ Reaped) => SummarySaysExitedOne

(***************************************************************************)
(* C10.  A failed mount never ends the child: a child that exited without  *)
(* calling execv did so at the filter load, after both mounts and the      *)
(* rlimits; a child that exited after calling execv performed all four     *)
(* steps before it; a child past a failed mount is at the next mount, the  *)
(* rlimits, the filter load, execv or the target.                          *)
(***************************************************************************)
C10_MountFailureNotFatal ==
    /\ (death.kind = "exit" /\ ~ExecvAttempted) =>
           trace = <<"mount_private", "mount_rdonly", "setrlimit", "seccomp_failed">>
    /\ (death.kind = "exit" /\ ExecvAttempted) =>
           /\ Len(trace) = 5
           /\ SubSeq(trace, 1, 4) = SubSeq(SetupOrder, 1, 4)
    /\ (cpc \notin {"none", "dead"} /\ "failed" \in {mounts.private, mounts.rdonly}) =>
           cpc \in {"mount_rdonly", "setrlimit", "seccomp", "execv", "target"}

C10_Witness ==
    /\ mounts = [private |-> "failed", rdonly |-> "failed"]
    /\ cpc = "target"
    /\ trace = SetupOrder

(***************************************************************************)
(* C11.  Whenever the supervisor has been killed while its child is alive, *)
(* the child terminates: it does not go on running the target for ever.    *)
(* Violated: clone passes no parent-death signal and the child, not the    *)
(* supervisor, is the init of the new PID namespace; the kernel reparents  *)
(* the child and lets it run.                                              *)
(***************************************************************************)
ChildAlive == cpc \notin {"none", "dead"}

C11_ChildDiesWithSupervisor == (pc = "killed" /\ ChildAlive) ~> (cpc = "dead")

\* the same as a statement about states: no state has the supervisor killed
\* and the target still running
NoOrphanedTarget == ~(pc = "killed" /\ cpc = "target")

(***************************************************************************)
(* C12.  Every poll that finds the child running appends exactly one       *)
(* sample to the timeline while fewer than MAX_SAMPLES are recorded, and   *)
(* none beyond; so the count after the loop is the number of such polls,   *)
(* capped at MAX_SAMPLES.                                                  *)
(* Violated: the loop of main updates the peaks and never calls            *)
(* add_sample; sample_count stays 0 whatever the number of polls.          *)
(***************************************************************************)
C12_OneSamplePerPoll ==
    [][PollRunning =>
         log_data'.sample_count =
            (IF log_data.sample_count < MAX_SAMPLES
             THEN log_data.sample_count + 1
             ELSE log_data.sample_count)]_vars

\* what the code does instead: no log ever carries a sample
TimelineAlwaysEmpty ==
    /\ log_data.sample_count = 0
    /\ \A i \in 1..Len(log_files) : log_files[i].time_ms = <<>>

(***************************************************************************)
(* C13.  After add_calls calls of add_sample on a zero-initialised log,    *)
(* sample_count is min(add_calls, MAX_SAMPLES) and the buffer holds the    *)
(* arguments of the first min(add_calls, MAX_SAMPLES) calls in call order, *)
(* no call faulting; and the three timeline arrays of a written document   *)
(* have sample_count entries each.                                         *)
(* Violated: the first call stores through the pointer malloc returned     *)
(* without looking at it; when malloc returns NULL the call faults and     *)
(* nothing is recorded.                                                    *)
(***************************************************************************)
Min(a, b) == IF a < b THEN a ELSE b

BufferHoldsFirstCalls ==
    /\ log_data.sample_count = Min(add_calls, MAX_SAMPLES)
    /\ Len(log_data.samples.mem) = log_data.sample_count
    /\ \A i \in 1..log_data.sample_count :
         log_data.samples.mem[i] = NthSample(feed, i)

TimelineArraysAligned ==
    \A i \in 1..Len(log_files) :
        /\ Len(log_files[i].time_ms) = log_data.sample_count
        /\ Len(log_files[i].cpu_percent) = log_data.sample_count
        /\ Len(log_files[i].memory_kb) = log_data.sample_count
        /\ log_data.sample_count <= MAX_SAMPLES

C13_SampleBufferCapped ==
    /\ pc # "crashed"
    /\ BufferHoldsFirstCalls
    /\ TimelineArraysAligned

\* what holds of every run in which the allocation succeeded
SampleBufferCappedWhenAllocated ==
    pc # "crashed" => BufferHoldsFirstCalls /\ TimelineArraysAligned

(***************************************************************************)
(* C20: once the loop is left, the summary's CPU percentage is             *)
(* 100 * (total_ticks / CLK_TCK) / (runtime_ms / 1000) cut to an integer,  *)
(* and stays 0 when runtime_ms is 0 or negative.                           *)
(***************************************************************************)
Measured == pc \in {"log", "exited"} /\ child_pid = ChildPid

\* the quotient of the claim, cut to an integer
ExactPercent(ticks, runtime_ms) == (100 * ticks * 1000) \div (CLK_TCK * runtime_ms)

C20_CpuPercentTruncated ==
    Measured =>
        log_data.cpu_usage_percent =
            (IF log_data.runtime_ms > 0
             THEN ExactPercent(total_ticks, log_data.runtime_ms)
             ELSE 0)

\* what the double arithmetic of lines 250-253 keeps of it: never above the
\* quotient, at most one below it, and 0 without a positive runtime_ms
CpuPercentWithinOne ==
    Measured =>
        IF log_data.runtime_ms > 0
        THEN LET exact == ExactPercent(total_ticks, log_data.runtime_ms)
             IN  log_data.cpu_usage_percent \in {exact - 1, exact}
        ELSE log_data.cpu_usage_percent = 0

\* total_ticks is the largest reading so far: a poll never lowers it
TotalTicksNeverLowered == [][total_ticks' >= total_ticks \/ pc' = "killed"]_vars

(***************************************************************************)
(* C14: in the log of a run whose child completed after being seen         *)
(* running, the timeline holds the samples of those polls, its timestamps  *)
(* never decrease, and runtime_ms is at least the largest of them.         *)
(***************************************************************************)
\* a written summary whose peak memory a running poll has raised
SeenRunning(d) == d.memory_peak_kb > 0

TimestampsOrdered(d) ==
    \A i \in 1..Len(d.time_ms), j \in 1..Len(d.time_ms) :
        i < j => d.time_ms[i] <= d.time_ms[j]

WithinRuntime(d) == \A i \in 1..Len(d.time_ms) : d.time_ms[i] <= d.runtime_ms

RuntimeNeverNegative ==
    \A k \in 1..Len(log_files) : log_files[k].runtime_ms >= 0

(***************************************************************************)
(* C15: the peak memory of the summary is at least every reading taken     *)
(* while the child ran: a poll leaves it at least as large as it was and   *)
(* as the reading it took, a failed reading of 0 included; and in every    *)
(* written log the peak fields are at least every sample of the timeline.  *)
(***************************************************************************)
\* every step that ends in the loop, a poll of the running child included
PeakCoversPoll ==
    pc' = "loop" =>
        /\ log_data'.memory_peak_kb >= log_data.memory_peak_kb
        /\ log_data'.memory_peak_kb >= current_mem'

PeaksCoverTimeline(d) ==
    \A i \in 1..Len(d.time_ms) :
        /\ d.cpu_percent[i] <= d.cpu_usage_percent
        /\ d.memory_kb[i] <= d.memory_peak_kb

C15_PeaksAreMaxima ==
    /\ [][PeakCoversPoll]_vars
    /\ [](\A k \in 1..Len(log_files) : PeaksCoverTimeline(log_files[k]))

\* a poll has read 0 after the peak had been raised, and the peak stands
C15_Witness ==
    /\ pc = "loop"
    /\ result = 0
    /\ current_mem = 0
    /\ log_data.memory_peak_kb > 0

(***************************************************************************)
(* C16: once the supervisor has emitted the log, logs/ exists (it was      *)
(* created if it was absent), and the log was written unless the directory *)
(* refuses writes.                                                         *)
(***************************************************************************)
C16_LogsDirCreated ==
    log_calls > 0 =>
        /\ logs_dir # "absent"
        /\ logs_dir = "writable" => Len(log_files) = log_calls

\* what holds instead: a log is written exactly when logs/ was there and
\* writable, and the directory is as the run found it
LogWrittenIffDirWritable ==
    log_calls > 0 => (Len(log_files) = log_calls <=> logs_dir = "writable")

\* ensure_logs_directory leaves an existing logs/ as it is
EnsureIsIdempotent ==
    [][(EnsureLogsDirectory /\ logs_dir # "absent") => logs_dir' = logs_dir]_vars

(***************************************************************************)
(* C17: the step that emits the log leaves the classification as it was    *)
(* computed, is the only call of log_telemetry of the run, and ends the    *)
(* supervisor with status 0, whether the file could be opened or not.      *)
(***************************************************************************)
WriteFailed == "fopen telemetry log" \in stderr

C17_WriteFailureHarmless ==
    [][(pc = "log" /\ pc' = "exited") =>
          /\ log_data' = log_data
          /\ log_calls = 0 /\ log_calls' = 1
          /\ exit_code' = 0
          /\ WriteFailed' => log_files' = log_files]_vars

\* a reaped child's run whose log could not be opened, ended with status 0
C17_Witness ==
    /\ pc = "exited"
    /\ WriteFailed
    /\ status.stored
    /\ log_data.exit_reason # ""
    /\ log_files = <<>>
    /\ log_calls = 1
    /\ exit_code = 0

(***************************************************************************)
(* C18: for every argument vector: with no executable on it (nothing after *)
(* the program name, or one --profile= token only) main prints the usage   *)
(* and exits 1 and no child exists; otherwise the profile is the one the   *)
(* token names, STRICT when the token names none that is known, and execv  *)
(* is given the executable's path and the vector that starts at it.        *)
(***************************************************************************)
NoExecutable(av) == Len(av) = 1 \/ (Len(av) = 2 /\ av[2].opt)

NamedProfile(av) ==
    IF av[2].opt /\ av[2].text = "RESOURCE-AWARE" THEN "PROFILE_RESOURCE_AWARE"
    ELSE IF av[2].opt /\ av[2].text = "LEARNING" THEN "PROFILE_LEARNING"
    ELSE "PROFILE_STRICT"

\* where the executable stands: after the profile token when there is one
ExecutableAt(av) == IF av[2].opt THEN 3 ELSE 2

C18_CommandLine ==
    IF NoExecutable(argv)
    THEN /\ cpc = "none"
         /\ pc \in {"parse", "exited"}
         /\ pc = "exited" => exit_code = 1 /\ "Usage" \in stderr
    ELSE /\ "Usage" \notin stderr
         /\ pc # "parse" =>
              /\ config.profile = NamedProfile(argv)
              /\ config.binary_path = argv[ExecutableAt(argv)].text
         /\ image # NoImage =>
              /\ image.path = argv[ExecutableAt(argv)].text
              /\ image.args = SubSeq(argv, ExecutableAt(argv), Len(argv))

\* an unknown profile token, and the target running with its arguments
C18_Witness ==
    /\ Len(argv) = 4
    /\ argv[2] = Opt("BOGUS")
    /\ cpc = "target"
    /\ config.profile = "PROFILE_STRICT"
    /\ image = [path |-> argv[3].text, args |-> <<argv[3], argv[4]>>]

(***************************************************************************)
(* C19: once child_fn is past its setrlimit calls, and for as long as the  *)
(* child lives, the soft and the hard ceiling of each of the four          *)
(* resources are the value of the rlimit vector, whatever the profile.     *)
(***************************************************************************)
LimitsInstalled == cpc \in {"seccomp", "execv", "target"}

C19_CeilingsInstalled ==
    LimitsInstalled =>
        \A r \in Resources :
            rlimits[r] = [cur |-> RlimitValue(config.profile)[r],
                          max |-> RlimitValue(config.profile)[r]]

\* what holds: no ceiling is above the value asked for, and no step of the
\* launcher or of the target raises one
CeilingsAtMost ==
    LimitsInstalled =>
        \A r \in Resources :
            /\ rlimits[r].max <= RlimitValue(config.profile)[r]
            /\ rlimits[r].cur <= rlimits[r].max

CeilingsNeverRaised ==
    [][LimitsInstalled =>
          \A r \in Resources : rlimits'[r].max <= rlimits[r].max]_vars

(***************************************************************************)
(* C21: once waitpid has returned anything but 0, the supervisor is out of *)
(* the monitoring loop for good: from then on no step stores a result of   *)
(* waitpid, a reading of /proc, a peak, a fault counter or a sample.       *)
(***************************************************************************)
LoopLeft == pc \in {"classify", "log", "exited"}

C21_LoopEndsAtFirstReap ==
    /\ [](result # 0 => LoopLeft)
    /\ [][(LoopLeft /\ pc' # "killed") =>
            /\ pc' # "loop"
            /\ result' = result
            /\ current_mem' = current_mem
            /\ total_ticks' = total_ticks
            /\ log_data'.memory_peak_kb = log_data.memory_peak_kb
            /\ log_data'.minflt = log_data.minflt
            /\ log_data'.majflt = log_data.majflt
            /\ log_data'.sample_count = log_data.sample_count]_vars

\* waitpid has failed, after polls that saw the child running
C21_Witness ==
    /\ pc = "classify"
    /\ result = -1
    /\ log_data.memory_peak_kb > 0

(***************************************************************************)
(* C22: every written summary has an exit_reason, one of EXITED(<code>),   *)
(* SECURITY_VIOLATION, KILLED_BY_OS and SIGNALED, the run whose waitpid    *)
(* failed included.                                                        *)
(***************************************************************************)
ReasonEnumeration ==
    {"SECURITY_VIOLATION", "KILLED_BY_OS", "SIGNALED"}
    \cup {ExitedReason(c) : c \in 0..255}

C22_ReasonAlwaysSet ==
    \A k \in 1..Len(log_files) : log_files[k].exit_reason \in ReasonEnumeration

\* what holds: the summary of a child whose status waitpid stored has one
ReasonSetWhenReaped ==
    status.stored =>
        \A k \in 1..Len(log_files) :
            log_files[k].exit_reason \in ReasonEnumeration

(***************************************************************************)
(* C23: the target runs only with all four limits applied: no setrlimit    *)
(* call of child_fn has failed and left the ceiling it found.              *)
(***************************************************************************)
\* the call for r succeeded: the ceilings are the ones it asked for (a call
\* that fails leaves what was inherited, which is never that value)
LimitApplied(r) ==
    /\ rlimits[r].cur = RlimitValue(config.profile)[r]
    /\ rlimits[r].max = RlimitValue(config.profile)[r]

C23_TargetOnlyWithLimits ==
    cpc = "target" => \A r \in Resources : LimitApplied(r)

(***************************************************************************)
(* C24: from one poll to the next the minor and the major fault counter of *)
(* the summary do not decrease; a poll that cannot read /proc/<pid>/stat   *)
(* leaves them as they were.                                               *)
(***************************************************************************)
C24_FaultCountersKept ==
    [][(pc = "loop" /\ pc' = "loop") =>
          /\ log_data'.minflt >= log_data.minflt
          /\ log_data'.majflt >= log_data.majflt]_vars

(***************************************************************************)
(* C25: what is enforced does not depend on the profile: in every run the  *)
(* flags given to clone, the four ceilings asked for, the allow-list and   *)
(* the kill default are those of a STRICT run; the profile shows in the    *)
(* profile name of the log only.                                           *)
(***************************************************************************)
\* the namespace flags of the claim
NamespaceFlags ==
    {"CLONE_NEWNS", "CLONE_NEWPID", "CLONE_NEWIPC", "CLONE_NEWUTS",
     "CLONE_NEWUSER"}

\* the ceilings of a STRICT run: the value asked for, or the inherited
\* ceiling under it that setrlimit could not raise
CeilingsOfStrict(r) ==
    LET v == [RLIMIT_STACK |-> 8388608, RLIMIT_NOFILE |-> 64,
              RLIMIT_AS |-> 134217728, RLIMIT_NPROC |-> 20][r]
    IN  {InheritedBelow(v), [cur |-> v, max |-> v]}

FilterOfStrict == [def |-> "KILL", allow |-> AllowList]

ProfileNameOf(av) ==
    IF av[2].opt /\ av[2].text \in {"RESOURCE-AWARE", "LEARNING"}
    THEN av[2].text
    ELSE "STRICT"

ChildTerminated == cpc = "dead" /\ pc = "loop"

SupervisorFinished ==
    /\ pc = "exited"
    /\ result # 0
    /\ log_calls = 1
    /\ stack = "freed"

Emitted(i) == peers[i].pc = "exited"

C27_OwnLogFile ==
    \A i \in Supervisors :
        Emitted(i) =>
            /\ run_files[peers[i].filename] = Document(peers[i].log)
            /\ \A j \in Supervisors \ {i} :
                  Emitted(j) => peers[j].filename # peers[i].filename

\* the file just written holds the writer's summary
LastWriterKeepsLog ==
    [][\A i \in Supervisors :
          PeerEmitLog(i) =>
              run_files'[LogFilename(clock)] = Document(peers[i].log)]_vars

====
